---- MODULE Spec2Model ----
(***************************************************************************)
(* Model of the percentage-change detectors of src/app_final.py (the       *)
(* Streamlit dashboard script): the sidebar date filter and the four       *)
(* detectors of tab6 / tab7 (STOCKS / INDEX x NetValue_in_Cr /             *)
(* NetQtyCarryFwd), executed in script order in one script run, each with  *)
(* its drill-down of one selected entity and what it puts on the page      *)
(* (specification Spec); the four detector blocks side by side on one     *)
(* table (specification Equivalence); the connection check, the two        *)
(* sidebar buttons, refresh_data() and the gate in front of load_data()    *)
(* over several script runs (specification Session); and the two metric    *)
(* columns of tab1 (specification Overview).                               *)
(*                                                                         *)
(* Representation.                                                         *)
(*  - A DataFrame is a record [columns, rows]; rows is a sequence of       *)
(*    records, in the frame's row order.                                   *)
(*  - A date is a whole number of days (the Date column is a calendar      *)
(*    date; pd.Timedelta(days = n) is n).                                  *)
(*  - A float cell is <<>> for NaN / NULL and <<n>> for the number n.      *)
(*  - PctChange is kept exactly, as the fraction <<num, den>> with         *)
(*    den > 0 (or <<>> for NaN); comparisons cross-multiply. float64       *)
(*    rounding is not modelled.                                            *)
(*  - The detector's script variables (max_date, lookback_data, ...,       *)
(*    significant_changes) are the module-level names of the script; each  *)
(*    of the four detectors assigns the same names, and a detector that    *)
(*    leaves a branch early leaves the later ones as they were.            *)
(***************************************************************************)
EXTENDS Integers, Sequences, FiniteSets, TLC

VARIABLES
    data,                 \* load_data(): key -> DataFrame
    start_date, end_date, \* sidebar date inputs
    filtered_data,        \* key -> DataFrame after filter_by_date
    pc,                   \* position of the script run
    detector,             \* the detector whose block ran last
    pct_threshold,        \* its "Percentage Change Threshold (%)" input
    days_lookback,        \* its "Days Lookback Period" input
    max_date, lookback_date, lookback_data,
    merged_data, valid_data, significant_changes,
    rising, falling,
    status,               \* which branch of the detector block was taken
    selected_stock,       \* the drill-down's selectbox value
    start_val, end_val, pct_change,   \* the drill-down's three metrics
    stats_df,             \* the "Additional Statistics" of the drill-down
    rendered,             \* the elements the block that ran last put on the page
    stocks_pct, index_pct, stocks_qty, index_qty,
                          \* the four blocks' results on one table (Equivalence)
    db_connected,         \* st.session_state.db_connected
    data_last_refreshed,  \* st.session_state.data_last_refreshed
    connection_status,    \* the script variable, "unset" before the first check
    checks,               \* what the check_database() calls of this run returned
    button,               \* the sidebar button that returned True in this run
    success,              \* what refresh_data() returned in this run
    process,              \* the subprocess this run's refresh_data() started
    updated_at,           \* MAX(updated_at) of market_index in the database
    cache,                \* the st.cache_data entry of load_data()
    latest_date,          \* tab1: the script variable of the overview
    index_metric, stocks_metric
                          \* tab1: what the two columns of the overview show

vars == <<data, start_date, end_date, filtered_data, pc, detector,
          pct_threshold, days_lookback, max_date, lookback_date,
          lookback_data, merged_data, valid_data, significant_changes,
          rising, falling, status, selected_stock, start_val, end_val,
          pct_change, stats_df, rendered,
          stocks_pct, index_pct, stocks_qty, index_qty,
          db_connected, data_last_refreshed, connection_status, checks,
          button, success, process, updated_at, cache,
          latest_date, index_metric, stocks_metric>>

sessionVars == <<db_connected, data_last_refreshed, connection_status, checks,
                 button, success, process, updated_at, cache>>

overviewVars == <<latest_date, index_metric, stocks_metric>>

-----------------------------------------------------------------------------
(* Bounds of the model *)

MaxDate == 2        \* dates are 0 .. MaxDate

Dates == 0 .. MaxDate

\* number_input(min_value=1, max_value=365): the days-lookback inputs
\* explored are the minimum and an odd one
Lookbacks == {1, 3}

\* number_input(min_value=1, max_value=100): the minimum and the STOCKS default
MinThreshold == 1
DefaultThreshold == 10
Thresholds == {MinThreshold, DefaultThreshold}

\* Symbols in ascending (groupby key) order
SymbolOrder == <<"A", "B">>
Symbols == {SymbolOrder[i] : i \in 1 .. Len(SymbolOrder)}

-----------------------------------------------------------------------------
(* Float cells *)

NaN == <<>>
Num(n) == <<n>>
IsNaN(x) == x = NaN
Val(x) == x[1]

Abs(n) == IF n < 0 THEN -n ELSE n

SetMax(S) == CHOOSE x \in S : \A y \in S : y <= x

-----------------------------------------------------------------------------
(* DataFrames; df[mask] is SelectSeq(rows, Mask): the rows that satisfy the
   mask, in the frame's order *)

AllColumns == {"Date", "Symbol", "NetValue_in_Cr", "NetQtyCarryFwd"}

DataFrame(cols, rows) == [columns |-> cols, rows |-> rows]

\* df.empty
IsEmpty(df) == Len(df.rows) = 0

\* the set of the row positions of a sequence
Idx(rows) == 1 .. Len(rows)

\* filter_by_date with the end bound exclusive
filter_by_date_EndExclusive(df, sd, ed) ==
    IF "Date" \in df.columns
    THEN LET InRange(r) == r.Date >= sd /\ r.Date < ed
         IN  DataFrame(df.columns, SelectSeq(df.rows, InRange))
    ELSE df

\* filter_by_date(df): both bounds inclusive; a frame without a Date column
\* is returned as it is
filter_by_date(df, sd, ed) ==
    IF "Date" \in df.columns
    THEN LET InRange(r) == r.Date >= sd /\ r.Date <= ed
         IN  DataFrame(df.columns, SelectSeq(df.rows, InRange))
    ELSE df

\* df["Date"].max(): NaT (<<>>) on a frame without rows
DateMax(df) ==
    IF IsEmpty(df) THEN NaN
    ELSE Num(SetMax({df.rows[i].Date : i \in Idx(df.rows)}))

\* max_date - pd.Timedelta(days = lookback): NaT stays NaT
LookbackDate(md, lookback) ==
    IF IsNaN(md) THEN NaN ELSE Num(Val(md) - lookback)

\* the lookback mask with > in place of >=
InLookback_Strict(r, lbd) == ~IsNaN(lbd) /\ r.Date > Val(lbd)

\* the mask  df["Date"] >= lookback_date  (False against NaT)
InLookback(r, lbd) == ~IsNaN(lbd) /\ r.Date >= Val(lbd)

\* df[df["Date"] >= lookback_date]
LookbackData(df, lbd) ==
    LET Mask(r) == InLookback(r, lbd)
    IN  DataFrame(df.columns, SelectSeq(df.rows, Mask))

\* the frame left in the order it came in
SortValuesDate_Unsorted(rows) == rows

\* sort_values("Date"): ascending; rows of equal Date keep their order
\* (numpy's quicksort is an insertion sort on frames this small)
SortValuesDate(rows) ==
    LET rank(i) == Cardinality({j \in Idx(rows) : rows[j].Date < rows[i].Date})
                 + Cardinality({j \in Idx(rows) : j < i /\ rows[j].Date = rows[i].Date})
                 + 1
    IN  [k \in Idx(rows) |-> rows[CHOOSE i \in Idx(rows) : rank(i) = k]]

\* the group of one Symbol, in the order of the frame given to groupby
Group(rows, sym) ==
    LET Mask(r) == r.Symbol = sym
    IN  SelectSeq(rows, Mask)

\* one key per row, as without the groupby
GroupKeys_PerRow(rows) == [k \in Idx(rows) |-> rows[k].Symbol]

\* groupby("Symbol"): the keys present, ascending
GroupKeys(rows) ==
    LET Present(sym) == \E i \in Idx(rows) : rows[i].Symbol = sym
    IN  SelectSeq(SymbolOrder, Present)

\* GroupBy.first() of a float column: the first entry that is not NaN
\* (NaN when the group has none)
FirstValid(g, col) ==
    LET ok == {i \in Idx(g) : ~IsNaN(g[i][col])}
    IN  IF ok = {} THEN NaN ELSE g[CHOOSE i \in ok : \A j \in ok : i <= j][col]

\* GroupBy.last() of a float column: the last entry that is not NaN
LastValid(g, col) ==
    LET ok == {i \in Idx(g) : ~IsNaN(g[i][col])}
    IN  IF ok = {} THEN NaN ELSE g[CHOOSE i \in ok : \A j \in ok : j <= i][col]

\* GroupBy.first() / last() of the Date column (a Date is never NULL)
FirstDate(g) == g[1].Date
LastDate(g) == g[Len(g)].Date

-----------------------------------------------------------------------------
(* Percentage change, exact: <<num, den>> with den > 0, or NaN *)

\* PctChange with the zero divisor replaced by 1 instead of NaN
PctChange_ZeroAsOne(sv, ev) ==
    LET divisor == IF ~IsNaN(sv) /\ Val(sv) = 0 THEN Num(1) ELSE sv
    IN  IF IsNaN(sv) \/ IsNaN(ev) THEN NaN
        ELSE IF Val(divisor) > 0
             THEN <<(Val(ev) - Val(sv)) * 100, Val(divisor)>>
             ELSE <<-((Val(ev) - Val(sv)) * 100), -Val(divisor)>>

\* PctChange divided by the absolute start value
PctChange_AbsDivisor(sv, ev) ==
    IF IsNaN(sv) \/ IsNaN(ev) \/ Val(sv) = 0 THEN NaN
    ELSE <<(Val(ev) - Val(sv)) * 100, Abs(Val(sv))>>

\* ((End - Start) / Start.replace(0, nan)) * 100, then
\* replace([inf, -inf], nan), which finds nothing to replace: the values are
\* finite and the zero divisor is already NaN
PctChange(sv, ev) ==
    LET divisor == IF ~IsNaN(sv) /\ Val(sv) = 0 THEN NaN ELSE sv
    IN  IF IsNaN(sv) \/ IsNaN(ev) \/ IsNaN(divisor) THEN NaN
        ELSE IF Val(divisor) > 0
             THEN <<(Val(ev) - Val(sv)) * 100, Val(divisor)>>
             ELSE <<-((Val(ev) - Val(sv)) * 100), -Val(divisor)>>

\* comparisons of a defined PctChange with a number
PctGe(p, n) == p[1] >= n * p[2]
PctLe(p, n) == p[1] <= n * p[2]
PctGt(p, n) == p[1] > n * p[2]
PctLt(p, n) == p[1] < n * p[2]

\* Series.abs()
PctAbs(p) == IF IsNaN(p) THEN NaN ELSE <<Abs(p[1]), p[2]>>

\* a < b, a = b for two defined fractions
FracLt(a, b) == a[1] * b[2] < b[1] * a[2]
FracEq(a, b) == a[1] * b[2] = b[1] * a[2]

\* the days counted with both ends
DaysBetween_Inclusive(sd, ed) == ed - sd + 1

\* (EndDate - StartDate).dt.days
DaysBetween(sd, ed) == ed - sd

\* earliest_data, latest_data, merge on Symbol, DaysBetween, PctChange:
\* one row per Symbol of the window, in key order
MergedData(lb, measure) ==
    LET sorted == SortValuesDate(lb.rows)
        keys == GroupKeys(sorted)
        Row(sym) ==
            LET g == Group(sorted, sym)
                sv == FirstValid(g, measure)
                ev == LastValid(g, measure)
            IN  [Symbol |-> sym,
                 StartDate |-> FirstDate(g), StartValue |-> sv,
                 EndDate |-> LastDate(g), EndValue |-> ev,
                 DaysBetween |-> DaysBetween(FirstDate(g), LastDate(g)),
                 PctChange |-> PctChange(sv, ev)]
    IN  [k \in 1 .. Len(keys) |-> Row(keys[k])]

\* the minimum days with an integer half: max(1, lookback // 2)
MinDaysOk_FloorHalf(days, lookback) ==
    days >= (IF lookback \div 2 > 1 THEN lookback \div 2 ELSE 1)

\* the minimum days as the integer half alone: lookback // 2
MinDaysOk_IntHalf(days, lookback) == days >= lookback \div 2

\* DaysBetween >= max(1, lookback * 0.5), in half days
MinDaysOk(days, lookback) ==
    2 * days >= (IF lookback > 2 THEN lookback ELSE 2)

\* merged_data[merged_data["DaysBetween"] >= min_days_required]
\*   .dropna(subset = ["PctChange"])
ValidData(md, lookback) ==
    LET Mask(r) == MinDaysOk(r.DaysBetween, lookback) /\ ~IsNaN(r.PctChange)
    IN  SelectSeq(md, Mask)

\* the threshold mask without the minus sign on the falling side
IsSignificant_NoMinus(p, threshold) == PctGe(p, threshold) \/ PctLe(p, threshold)

\* the threshold mask with strict comparisons
IsSignificant_Strict(p, threshold) == PctGt(p, threshold) \/ PctLt(p, -threshold)

\* (PctChange >= threshold) | (PctChange <= -threshold)
IsSignificant(p, threshold) == PctGe(p, threshold) \/ PctLe(p, -threshold)

\* the sort left ascending
SortByAbsDesc_Ascending(rows) ==
    LET rank(i) ==
            Cardinality({j \in Idx(rows) :
                            FracLt(rows[j].AbsPctChange, rows[i].AbsPctChange)})
          + Cardinality({j \in Idx(rows) : j < i /\
                            FracEq(rows[i].AbsPctChange, rows[j].AbsPctChange)})
          + 1
    IN  [k \in Idx(rows) |-> rows[CHOOSE i \in Idx(rows) : rank(i) = k]]

\* sort_values("AbsPctChange", ascending = False): rows of equal
\* AbsPctChange keep their order
SortByAbsDesc(rows) ==
    LET rank(i) ==
            Cardinality({j \in Idx(rows) :
                            FracLt(rows[i].AbsPctChange, rows[j].AbsPctChange)})
          + Cardinality({j \in Idx(rows) : j < i /\
                            FracEq(rows[i].AbsPctChange, rows[j].AbsPctChange)})
          + 1
    IN  [k \in Idx(rows) |-> rows[CHOOSE i \in Idx(rows) : rank(i) = k]]

\* valid_data[mask], the AbsPctChange column, the sort
SignificantChanges(vd, threshold) ==
    LET Mask(r) == IsSignificant(r.PctChange, threshold)
        sel == SelectSeq(vd, Mask)
        WithAbs(r) ==
            [Symbol |-> r.Symbol,
             StartDate |-> r.StartDate, StartValue |-> r.StartValue,
             EndDate |-> r.EndDate, EndValue |-> r.EndValue,
             DaysBetween |-> r.DaysBetween, PctChange |-> r.PctChange,
             AbsPctChange |-> PctAbs(r.PctChange)]
    IN  SortByAbsDesc([k \in Idx(sel) |-> WithAbs(sel[k])])

\* the rising view taken on the AbsPctChange column
Rising_WrongColumn(sc) ==
    LET Mask(r) == PctGt(r.AbsPctChange, 0)
    IN  SelectSeq(sc, Mask)

\* significant_changes[significant_changes["PctChange"] > 0]
Rising(sc) ==
    LET Mask(r) == PctGt(r.PctChange, 0)
    IN  SelectSeq(sc, Mask)

\* significant_changes[significant_changes["PctChange"] < 0]
Falling(sc) ==
    LET Mask(r) == PctLt(r.PctChange, 0)
    IN  SelectSeq(sc, Mask)

-----------------------------------------------------------------------------
(* The drill-down of one entity ("Detailed Time Series Analysis") *)

\* the options of the selectbox: significant_changes["Symbol"].tolist()
SelectOptions(sc) == {sc[i].Symbol : i \in Idx(sc)}

\* lookback_data[lookback_data["Symbol"] == selected_stock]
TrendData(lb, sym) ==
    LET Mask(r) == r.Symbol = sym
    IN  SelectSeq(lb.rows, Mask)

\* the numbers of a column, NaN skipped (the reductions' skipna = True)
NotNull(rows, col) ==
    LET Mask(r) == ~IsNaN(r[col])
        sel == SelectSeq(rows, Mask)
    IN  [k \in Idx(sel) |-> Val(sel[k][col])]

RECURSIVE SeqSum(_)
SeqSum(xs) == IF xs = <<>> THEN 0 ELSE Head(xs) + SeqSum(Tail(xs))

\* Series.mean(): the fraction <<sum, count>>, NaN without a number
SeriesMean(xs) == IF xs = <<>> THEN NaN ELSE <<SeqSum(xs), Len(xs)>>

\* Series.max(), Series.min()
SeriesMax(xs) ==
    IF xs = <<>> THEN NaN
    ELSE Num(CHOOSE x \in {xs[i] : i \in Idx(xs)} : \A i \in Idx(xs) : xs[i] <= x)
SeriesMin(xs) ==
    IF xs = <<>> THEN NaN
    ELSE Num(CHOOSE x \in {xs[i] : i \in Idx(xs)} : \A i \in Idx(xs) : x <= xs[i])

\* Series.std() (ddof = 1), kept as its square: the variance
\* <<n * sum(x^2) - sum(x)^2, n * (n - 1)>>, NaN with fewer than two numbers
SeriesStd(xs) ==
    LET n == Len(xs)
        squares == [k \in Idx(xs) |-> xs[k] * xs[k]]
    IN  IF n < 2 THEN NaN
        ELSE <<n * SeqSum(squares) - SeqSum(xs) * SeqSum(xs), n * (n - 1)>>

\* "Days Tracked": len(stock_trend_data)
DaysTracked(rows) == Len(rows)

\* stats_df: mean, max, min and std of the measure over the entity's rows
\* of the window, and the number of these rows
AdditionalStatistics(td, measure) ==
    LET xs == NotNull(td, measure)
    IN  [Mean |-> SeriesMean(xs), Max |-> SeriesMax(xs), Min |-> SeriesMin(xs),
         Std |-> SeriesStd(xs), Days |-> DaysTracked(td)]

\* ((end_val - start_val) / start_val) * 100 if start_val != 0
\* else float('nan'); NaN != 0 holds, and the arithmetic on NaN gives NaN
DrillPctChange(sv, ev) ==
    IF ~IsNaN(sv) /\ Val(sv) = 0 THEN NaN
    ELSE IF IsNaN(sv) \/ IsNaN(ev) THEN NaN
    ELSE IF Val(sv) > 0
         THEN <<(Val(ev) - Val(sv)) * 100, Val(sv)>>
         ELSE <<-((Val(ev) - Val(sv)) * 100), -Val(sv)>>

-----------------------------------------------------------------------------
(* The tables the run starts from *)

\* the (NetValue_in_Cr, NetQtyCarryFwd) cells of a row
Measures ==
    { [NetValue_in_Cr |-> NaN,      NetQtyCarryFwd |-> Num(50)],
      [NetValue_in_Cr |-> Num(0),   NetQtyCarryFwd |-> Num(49)],
      [NetValue_in_Cr |-> Num(100), NetQtyCarryFwd |-> Num(-100)],
      [NetValue_in_Cr |-> Num(101), NetQtyCarryFwd |-> Num(0)],
      [NetValue_in_Cr |-> Num(112), NetQtyCarryFwd |-> NaN] }

\* the observations of one entity: at most n dates, one row per date
Series(n) ==
    UNION { [D -> Measures] : D \in {X \in SUBSET Dates : Cardinality(X) <= n} }

\* the second entity: not observed, or observed on the first and the last
\* date, falling from 50 to 45 in both measures
EndSeries ==
    { <<>>,
      [d \in {0, MaxDate} |->
          IF d = 0
          THEN [NetValue_in_Cr |-> Num(50), NetQtyCarryFwd |-> Num(50)]
          ELSE [NetValue_in_Cr |-> Num(45), NetQtyCarryFwd |-> Num(45)]] }

SeriesRows(sym, f) ==
    { [Symbol |-> sym, Date |-> d,
       NetValue_in_Cr |-> f[d].NetValue_in_Cr,
       NetQtyCarryFwd |-> f[d].NetQtyCarryFwd] : d \in DOMAIN f }

SymbolRank(sym) == CHOOSE i \in 1 .. Len(SymbolOrder) : SymbolOrder[i] = sym

\* the rows of a set in table order: latest date first, and within a date
\* the later Symbol first (descending = TRUE), or the reverse
RowSeq(S, descending) ==
    LET key(r) == r.Date * Len(SymbolOrder) + SymbolRank(r.Symbol)
        before(r) == Cardinality({x \in S : IF descending THEN key(x) > key(r)
                                                         ELSE key(x) < key(r)})
    IN  [k \in 1 .. Cardinality(S) |-> CHOOSE r \in S : before(r) = k - 1]

Observations(fa, fb) == SeriesRows("A", fa) \cup SeriesRows("B", fb)

\* a frame with the columns `cols` only (the SQL table has no others)
WithoutColumns(cols, rows) ==
    DataFrame(cols, [k \in 1 .. Len(rows) |-> [c \in cols |-> rows[k][c]]])

\* a second row of the entity on its latest date (the tables have no key
\* on Symbol and Date), holding 50 in both measures
RepeatedRow(sym, f) ==
    [Symbol |-> sym, Date |-> SetMax(DOMAIN f),
     NetValue_in_Cr |-> Num(50), NetQtyCarryFwd |-> Num(50)]

\* load_data()'s result (SELECT * gives the rows in no particular order):
\* STOCKS holds the observations latest first, INDEX the same observations
\* earliest first; or INDEX lacks the Date column or a measure column; or
\* both tables end with a second row of the one entity on its latest date
LoadedData ==
    { [STOCKS |-> DataFrame(AllColumns, RowSeq(Observations(fa, fb), TRUE)),
       INDEX  |-> DataFrame(AllColumns, RowSeq(Observations(fa, fb), FALSE))] :
        fa \in Series(3), fb \in EndSeries }
    \cup
    { [STOCKS |-> DataFrame(AllColumns, RowSeq(Observations(fa, fb), TRUE)),
       INDEX  |-> WithoutColumns(AllColumns \ {"Date"},
                                 RowSeq(Observations(fa, fb), FALSE))] :
        fa \in Series(2), fb \in EndSeries \ {<<>>} }
    \cup
    { [STOCKS |-> DataFrame(AllColumns, RowSeq(Observations(fa, fb), TRUE)),
       INDEX  |-> WithoutColumns(AllColumns \ {c},
                                 RowSeq(Observations(fa, fb), FALSE))] :
        fa \in Series(1), fb \in EndSeries,
        c \in {"NetValue_in_Cr", "NetQtyCarryFwd"} }
    \cup
    { [STOCKS |-> DataFrame(AllColumns,
                    Append(RowSeq(SeriesRows("A", fa), TRUE), RepeatedRow("A", fa))),
       INDEX  |-> DataFrame(AllColumns,
                    Append(RowSeq(SeriesRows("A", fa), FALSE), RepeatedRow("A", fa)))] :
        fa \in {f \in Series(2) : Cardinality(DOMAIN f) = 2} }

\* the sidebar's date range: every date, or one day less at one end
DateRanges == { <<0, MaxDate>>, <<1, MaxDate>>, <<0, MaxDate - 1>> }

-----------------------------------------------------------------------------
(* The script run *)

\* a script variable that no statement of this run has assigned yet, and
\* one that holds v
Unassigned == <<>>
Assigned(v) == <<v>>

\* what a column of the overview shows: nothing yet, a metric, a warning
\* or the message of its except branch
Shown(kind, value) == [kind |-> kind, value |-> value]

\* session_state as lines 79-83 create it, an empty cache, no subprocess, and
\* no script variable assigned
NothingAssigned ==
    /\ start_date = 0
    /\ end_date = 0
    /\ filtered_data = <<>>
    /\ detector = "none"
    /\ pct_threshold = 0
    /\ days_lookback = 0
    /\ max_date = NaN
    /\ lookback_date = NaN
    /\ lookback_data = <<>>
    /\ merged_data = <<>>
    /\ valid_data = <<>>
    /\ significant_changes = <<>>
    /\ rising = <<>>
    /\ falling = <<>>
    /\ status = "none"
    /\ selected_stock = ""
    /\ start_val = NaN
    /\ end_val = NaN
    /\ pct_change = NaN
    /\ stats_df = <<>>
    /\ rendered = {}
    /\ stocks_pct = <<>>
    /\ index_pct = <<>>
    /\ stocks_qty = <<>>
    /\ index_qty = <<>>
    /\ db_connected = FALSE
    /\ data_last_refreshed = NaN
    /\ connection_status = Unassigned
    /\ checks = <<>>
    /\ button = "none"
    /\ success = Unassigned
    /\ process = "none"
    /\ updated_at = NaN
    /\ cache = Unassigned
    /\ latest_date = Unassigned
    /\ index_metric = Shown("none", NaN)
    /\ stocks_metric = Shown("none", NaN)

\* the script at the sidebar's date inputs: nothing is assigned yet
ScriptStart ==
    /\ pc = "sidebar"
    /\ NothingAssigned

Init ==
    /\ data \in LoadedData
    /\ ScriptStart

drillVars == <<selected_stock, start_val, end_val, pct_change, stats_df>>

equivalenceVars == <<stocks_pct, index_pct, stocks_qty, index_qty>>

detectorVars == <<detector, pct_threshold, days_lookback, max_date,
                  lookback_date, lookback_data, merged_data, valid_data,
                  significant_changes, rising, falling, status, drillVars,
                  rendered>>

\* start_date / end_date inputs and filtered_data; next: the tab whose
\* code the run continues with
SidebarFilterTo(next) ==
    /\ pc = "sidebar"
    /\ \E range \in DateRanges :
          /\ start_date' = range[1]
          /\ end_date' = range[2]
          /\ filtered_data' =
                [key \in DOMAIN data |-> filter_by_date(data[key], range[1], range[2])]
    /\ pc' = next
    /\ UNCHANGED <<data, detectorVars, equivalenceVars, sessionVars,
                   overviewVars>>

SidebarFilter == SidebarFilterTo("tab6_pct_tab1")

\* the branch without the test of lookback_data.empty
Branch_NoEmptyTest(df, lb, measure, sc) ==
    IF "Date" \notin df.columns THEN "no_date_column"
    ELSE IF measure \notin lb.columns THEN "KeyError"
    ELSE IF Len(sc) > 0 THEN "results"
    ELSE "no_changes"

\* The branch a detector block takes on the table df:
\*   if 'Date' in df.columns / if not lookback_data.empty /
\*   earliest_data[["Symbol", "StartDate", "StartValue"]] raises KeyError
\*   when the measure column is missing / if not significant_changes.empty
Branch(df, lb, measure, sc) ==
    IF "Date" \notin df.columns THEN "no_date_column"
    ELSE IF IsEmpty(lb) THEN "insufficient_data"
    ELSE IF measure \notin lb.columns THEN "KeyError"
    ELSE IF Len(sc) > 0 THEN "results"
    ELSE "no_changes"

\* the page with the table, the chart and the selectbox drawn whether or not
\* significant_changes has rows
Rendered_NoEmptyTest(branch, td, rs, fl) ==
    CASE branch = "no_date_column"    -> {"warning_no_date_column"}
      [] branch = "insufficient_data" -> {"warning_insufficient_data"}
      [] branch = "KeyError"          -> {"exception"}
      [] branch = "no_changes"        ->
            {"table", "bar_chart", "selectbox", "info_no_rise", "info_no_fall"}
      [] branch = "results"           ->
            {"table", "bar_chart", "selectbox"}
            \cup (IF Len(td) > 0 THEN {"metrics", "line_chart", "statistics"}
                                 ELSE {"warning_no_trend_data"})
            \cup (IF Len(rs) > 0 THEN {"rising_table"} ELSE {"info_no_rise"})
            \cup (IF Len(fl) > 0 THEN {"falling_table"} ELSE {"info_no_fall"})

\* What a detector block puts on the page in each branch: one message, the
\* uncaught exception, or the table, the bar chart, the drill-down of the
\* selected entity (rows td) and the rising (rs) and falling (fl) views
Rendered(branch, td, rs, fl) ==
    CASE branch = "no_date_column"    -> {"warning_no_date_column"}
      [] branch = "insufficient_data" -> {"warning_insufficient_data"}
      [] branch = "KeyError"          -> {"exception"}
      [] branch = "no_changes"        -> {"info_no_changes"}
      [] branch = "results"           ->
            {"table", "bar_chart", "selectbox"}
            \cup (IF Len(td) > 0 THEN {"metrics", "line_chart", "statistics"}
                                 ELSE {"warning_no_trend_data"})
            \cup (IF Len(rs) > 0 THEN {"rising_table"} ELSE {"info_no_rise"})
            \cup (IF Len(fl) > 0 THEN {"falling_table"} ELSE {"info_no_fall"})

\* the table a block leaves behind with the zeros of its measure column
\* replaced by NaN, as replace(0, nan) would do in place
InputAfter_ReplaceInPlace(fd, key, measure) ==
    LET Replaced(r) ==
            [c \in DOMAIN r |->
                IF c = measure /\ r[c] = Num(0) THEN NaN ELSE r[c]]
    IN  [k \in DOMAIN fd |->
            IF k = key /\ measure \in fd[k].columns
            THEN DataFrame(fd[k].columns,
                           [i \in Idx(fd[k].rows) |-> Replaced(fd[k].rows[i])])
            ELSE fd[k]]

\* filtered_data after a detector block: the block only reads the table.
\* df[mask], sort_values, groupby().first() / last(), rename, merge and
\* Series.replace(0, nan) return new objects; replace(..., inplace = True)
\* acts on merged_data["PctChange"] and the AbsPctChange and *_Formatted
\* columns are set on significant_changes, itself the result of df[mask]
InputAfter(fd, key, measure) == fd

\* One detector block: table `key`, measure column `measure`, the two
\* number inputs, and the tab that follows
DetectorBlock(name, key, measure, next) ==
    \E threshold \in Thresholds, lookback \in Lookbacks :
      LET df  == filtered_data[key]
          md  == DateMax(df)
          lbd == LookbackDate(md, lookback)
          lb  == LookbackData(df, lbd)
          mg  == MergedData(lb, measure)
          vd  == ValidData(mg, lookback)
          sc  == SignificantChanges(vd, threshold)
      IN
      /\ detector' = name
      /\ pct_threshold' = threshold
      /\ days_lookback' = lookback
      /\ status' = Branch(df, lb, measure, sc)
      /\ pc' = IF status' = "KeyError" THEN "exception" ELSE next
      /\ IF status' = "no_date_column"
         THEN UNCHANGED <<max_date, lookback_date, lookback_data>>
         ELSE /\ max_date' = md
              /\ lookback_date' = lbd
              /\ lookback_data' = lb
      /\ IF status' \in {"results", "no_changes"}
         THEN /\ merged_data' = MergedData(lookback_data', measure)
              /\ valid_data' = ValidData(merged_data', lookback)
              /\ significant_changes' = SignificantChanges(valid_data', threshold)
         ELSE UNCHANGED <<merged_data, valid_data, significant_changes>>
      /\ IF status' = "results"
         THEN \E selected \in SelectOptions(significant_changes') :
                LET td == TrendData(lookback_data', selected)
                    sorted == SortValuesDate(td)
                IN  /\ selected_stock' = selected
                    /\ IF Len(td) > 0
                       THEN /\ start_val' = sorted[1][measure]
                            /\ end_val' = sorted[Len(sorted)][measure]
                            /\ pct_change' = DrillPctChange(start_val', end_val')
                            /\ stats_df' = AdditionalStatistics(td, measure)
                       ELSE UNCHANGED <<start_val, end_val, pct_change, stats_df>>
                    /\ rising' = Rising(significant_changes')
                    /\ falling' = Falling(significant_changes')
                    /\ rendered' = Rendered(status', td, rising', falling')
         ELSE /\ rendered' = Rendered(status', <<>>, <<>>, <<>>)
              /\ UNCHANGED <<rising, falling, drillVars>>
      /\ filtered_data' = InputAfter(filtered_data, key, measure)
      /\ UNCHANGED <<data, start_date, end_date, equivalenceVars,
                     sessionVars, overviewVars>>

StocksPctChange ==
    /\ pc = "tab6_pct_tab1"
    /\ DetectorBlock("tab6_pct_tab1", "STOCKS", "NetValue_in_Cr", "tab6_pct_tab2")

IndexPctChange ==
    /\ pc = "tab6_pct_tab2"
    /\ DetectorBlock("tab6_pct_tab2", "INDEX", "NetValue_in_Cr", "tab7_qty_tab1")

StocksQtyPctChange ==
    /\ pc = "tab7_qty_tab1"
    /\ DetectorBlock("tab7_qty_tab1", "STOCKS", "NetQtyCarryFwd", "tab7_qty_tab2")

IndexQtyPctChange ==
    /\ pc = "tab7_qty_tab2"
    /\ DetectorBlock("tab7_qty_tab2", "INDEX", "NetQtyCarryFwd", "tab8")

Next ==
    \/ SidebarFilter
    \/ StocksPctChange
    \/ IndexPctChange
    \/ StocksQtyPctChange
    \/ IndexQtyPctChange

Spec == Init /\ [][Next]_vars

-----------------------------------------------------------------------------
(* The four detector blocks, each taken from its own lines of the script, *)
(* applied to one table with one lookback and one threshold               *)

\* tab6 / pct_tab1 (lines 887-944): with the operators of the script run
StocksPctDetector(df, lookback, threshold) ==
    IF "Date" \notin df.columns THEN <<>>
    ELSE LET lb == LookbackData(df, LookbackDate(DateMax(df), lookback))
         IN  IF IsEmpty(lb) THEN <<>>
             ELSE SignificantChanges(
                      ValidData(MergedData(lb, "NetValue_in_Cr"), lookback),
                      threshold)

\* tab6 / pct_tab2: ((EndValue - StartValue) / StartValue.replace(0, nan)) * 100,
\* then replace([inf, -inf], nan)
IndexPctFormula(start, end) ==
    IF IsNaN(start) \/ IsNaN(end) THEN NaN
    ELSE IF Val(start) = 0 THEN NaN
    ELSE IF Val(start) > 0
         THEN <<(Val(end) - Val(start)) * 100, Val(start)>>
         ELSE <<-((Val(end) - Val(start)) * 100), -Val(start)>>

\* tab6 / pct_tab2 (lines 1143-1200): the block's significant_changes on the table
\* df, no rows when the block shows a message instead (the table has its
\* measure column)
IndexPctDetector(df, lookback, threshold) ==
    IF "Date" \notin df.columns THEN <<>>
    ELSE
    LET latest == DateMax(df)
        InWindow(r) == ~IsNaN(latest) /\ r.Date >= Val(latest) - lookback
        window == SelectSeq(df.rows, InWindow)
        sorted == SortValuesDate(window)
        keys == GroupKeys(sorted)
        Merged(sym) ==
            LET g == Group(sorted, sym)
            IN  [Symbol |-> sym,
                 StartDate |-> FirstDate(g),
                 StartValue |-> FirstValid(g, "NetValue_in_Cr"),
                 EndDate |-> LastDate(g),
                 EndValue |-> LastValid(g, "NetValue_in_Cr"),
                 DaysBetween |-> LastDate(g) - FirstDate(g),
                 PctChange |-> IndexPctFormula(FirstValid(g, "NetValue_in_Cr"),
                                         LastValid(g, "NetValue_in_Cr"))]
        merged == [k \in Idx(keys) |-> Merged(keys[k])]
        Valid(r) == /\ 2 * r.DaysBetween >= (IF lookback > 2 THEN lookback ELSE 2)
                    /\ ~IsNaN(r.PctChange)
        Significant(r) == \/ PctGe(r.PctChange, threshold)
                          \/ PctLe(r.PctChange, -threshold)
        selected == SelectSeq(SelectSeq(merged, Valid), Significant)
        WithAbs(r) ==
            [Symbol |-> r.Symbol,
             StartDate |-> r.StartDate, StartValue |-> r.StartValue,
             EndDate |-> r.EndDate, EndValue |-> r.EndValue,
             DaysBetween |-> r.DaysBetween, PctChange |-> r.PctChange,
             AbsPctChange |-> PctAbs(r.PctChange)]
    IN  IF window = <<>> THEN <<>>
        ELSE SortByAbsDesc([k \in Idx(selected) |-> WithAbs(selected[k])])

\* the percentage taken on the end quantity
StocksQtyFormula_EndDivisor(start, end) ==
    IF IsNaN(start) \/ IsNaN(end) THEN NaN
    ELSE IF Val(end) = 0 THEN NaN
    ELSE IF Val(end) > 0
         THEN <<(Val(end) - Val(start)) * 100, Val(end)>>
         ELSE <<-((Val(end) - Val(start)) * 100), -Val(end)>>

\* tab7 / qty_tab1: ((EndQty - StartQty) / StartQty.replace(0, nan)) * 100,
\* then replace([inf, -inf], nan)
StocksQtyFormula(start, end) ==
    IF IsNaN(start) \/ IsNaN(end) THEN NaN
    ELSE IF Val(start) = 0 THEN NaN
    ELSE IF Val(start) > 0
         THEN <<(Val(end) - Val(start)) * 100, Val(start)>>
         ELSE <<-((Val(end) - Val(start)) * 100), -Val(start)>>

\* tab7 / qty_tab1 (lines 1406-1463): the block's significant_changes on the table
\* df, no rows when the block shows a message instead (the table has its
\* measure column)
StocksQtyDetector(df, lookback, threshold) ==
    IF "Date" \notin df.columns THEN <<>>
    ELSE
    LET latest == DateMax(df)
        InWindow(r) == ~IsNaN(latest) /\ r.Date >= Val(latest) - lookback
        window == SelectSeq(df.rows, InWindow)
        sorted == SortValuesDate(window)
        keys == GroupKeys(sorted)
        Merged(sym) ==
            LET g == Group(sorted, sym)
            IN  [Symbol |-> sym,
                 StartDate |-> FirstDate(g),
                 StartQty |-> FirstValid(g, "NetQtyCarryFwd"),
                 EndDate |-> LastDate(g),
                 EndQty |-> LastValid(g, "NetQtyCarryFwd"),
                 DaysBetween |-> LastDate(g) - FirstDate(g),
                 PctChange |-> StocksQtyFormula(FirstValid(g, "NetQtyCarryFwd"),
                                         LastValid(g, "NetQtyCarryFwd"))]
        merged == [k \in Idx(keys) |-> Merged(keys[k])]
        Valid(r) == /\ 2 * r.DaysBetween >= (IF lookback > 2 THEN lookback ELSE 2)
                    /\ ~IsNaN(r.PctChange)
        Significant(r) == \/ PctGe(r.PctChange, threshold)
                          \/ PctLe(r.PctChange, -threshold)
        selected == SelectSeq(SelectSeq(merged, Valid), Significant)
        WithAbs(r) ==
            [Symbol |-> r.Symbol,
             StartDate |-> r.StartDate, StartQty |-> r.StartQty,
             EndDate |-> r.EndDate, EndQty |-> r.EndQty,
             DaysBetween |-> r.DaysBetween, PctChange |-> r.PctChange,
             AbsPctChange |-> PctAbs(r.PctChange)]
    IN  IF window = <<>> THEN <<>>
        ELSE SortByAbsDesc([k \in Idx(selected) |-> WithAbs(selected[k])])

\* tab7 / qty_tab2: ((EndQty - StartQty) / StartQty.replace(0, nan)) * 100,
\* then replace([inf, -inf], nan)
IndexQtyFormula(start, end) ==
    IF IsNaN(start) \/ IsNaN(end) THEN NaN
    ELSE IF Val(start) = 0 THEN NaN
    ELSE IF Val(start) > 0
         THEN <<(Val(end) - Val(start)) * 100, Val(start)>>
         ELSE <<-((Val(end) - Val(start)) * 100), -Val(start)>>

\* tab7 / qty_tab2 (lines 1662-1719): the block's significant_changes on the table
\* df, no rows when the block shows a message instead (the table has its
\* measure column)
IndexQtyDetector(df, lookback, threshold) ==
    IF "Date" \notin df.columns THEN <<>>
    ELSE
    LET latest == DateMax(df)
        InWindow(r) == ~IsNaN(latest) /\ r.Date >= Val(latest) - lookback
        window == SelectSeq(df.rows, InWindow)
        sorted == SortValuesDate(window)
        keys == GroupKeys(sorted)
        Merged(sym) ==
            LET g == Group(sorted, sym)
            IN  [Symbol |-> sym,
                 StartDate |-> FirstDate(g),
                 StartQty |-> FirstValid(g, "NetQtyCarryFwd"),
                 EndDate |-> LastDate(g),
                 EndQty |-> LastValid(g, "NetQtyCarryFwd"),
                 DaysBetween |-> LastDate(g) - FirstDate(g),
                 PctChange |-> IndexQtyFormula(FirstValid(g, "NetQtyCarryFwd"),
                                         LastValid(g, "NetQtyCarryFwd"))]
        merged == [k \in Idx(keys) |-> Merged(keys[k])]
        Valid(r) == /\ 2 * r.DaysBetween >= (IF lookback > 2 THEN lookback ELSE 2)
                    /\ ~IsNaN(r.PctChange)
        Significant(r) == \/ PctGe(r.PctChange, threshold)
                          \/ PctLe(r.PctChange, -threshold)
        selected == SelectSeq(SelectSeq(merged, Valid), Significant)
        WithAbs(r) ==
            [Symbol |-> r.Symbol,
             StartDate |-> r.StartDate, StartQty |-> r.StartQty,
             EndDate |-> r.EndDate, EndQty |-> r.EndQty,
             DaysBetween |-> r.DaysBetween, PctChange |-> r.PctChange,
             AbsPctChange |-> PctAbs(r.PctChange)]
    IN  IF window = <<>> THEN <<>>
        ELSE SortByAbsDesc([k \in Idx(selected) |-> WithAbs(selected[k])])

\* the values of both measure columns of a row
EquivalenceValues == {NaN, Num(0), Num(100), Num(110), Num(-100)}

\* the observations of the first entity: up to three dates, the two
\* measure columns equal
EquivalenceSeries ==
    UNION { [D -> {[NetValue_in_Cr |-> v, NetQtyCarryFwd |-> v] :
                        v \in EquivalenceValues}] :
            D \in {X \in SUBSET Dates : Cardinality(X) <= 3} }

\* one table, given to the STOCKS and to the INDEX blocks, its rows latest
\* first or earliest first
EquivalenceData ==
    { [STOCKS |-> DataFrame(AllColumns, RowSeq(Observations(fa, fb), descending)),
       INDEX  |-> DataFrame(AllColumns, RowSeq(Observations(fa, fb), descending))] :
        fa \in EquivalenceSeries, fb \in EndSeries, descending \in BOOLEAN }

EquivalenceInit ==
    /\ data \in EquivalenceData
    /\ ScriptStart

\* the four blocks on the loaded tables, with the same two number inputs
FourDetectors ==
    /\ pc = "sidebar"
    /\ \E threshold \in Thresholds, lookback \in Lookbacks :
          /\ pct_threshold' = threshold
          /\ days_lookback' = lookback
          /\ stocks_pct' = StocksPctDetector(data["STOCKS"], lookback, threshold)
          /\ index_pct' = IndexPctDetector(data["INDEX"], lookback, threshold)
          /\ stocks_qty' = StocksQtyDetector(data["STOCKS"], lookback, threshold)
          /\ index_qty' = IndexQtyDetector(data["INDEX"], lookback, threshold)
    /\ pc' = "compared"
    /\ UNCHANGED <<data, start_date, end_date, filtered_data, detector, max_date,
                   lookback_date, lookback_data, merged_data, valid_data,
                   significant_changes, rising, falling, status, drillVars,
                   rendered, sessionVars, overviewVars>>

EquivalenceNext == FourDetectors

Equivalence == EquivalenceInit /\ [][EquivalenceNext]_vars

-----------------------------------------------------------------------------
(* The connection check, the two sidebar buttons and the gate in front of *)
(* load_data(), over several runs of the script in one browser session.   *)
(* The database and the generate_data.py subprocess are the environment.  *)

MaxUpdatedAt == 2   \* market_index.updated_at takes the values 1 .. MaxUpdatedAt

\* check_database(), line 122 against line 133: a successful check stores
\* MAX(updated_at); the except branch leaves data_last_refreshed alone
LastRefreshedAfter_ResetOnFailure(connected, previous, last_updated) ==
    IF connected THEN last_updated ELSE NaN

LastRefreshedAfter(connected, previous, last_updated) ==
    IF connected THEN last_updated ELSE previous

\* one call of check_database(): the database answers the connect and the
\* six queries, or some statement of the try block raises
CheckDatabase(next) ==
    \E connected \in BOOLEAN :
       /\ db_connected' = connected
       /\ data_last_refreshed' =
             LastRefreshedAfter(connected, data_last_refreshed, updated_at)
       /\ connection_status' = Assigned(connected)
       /\ checks' = Append(checks, connected)
       /\ pc' = next

\* the result type of Python's + on operands of these types
PyAdd(left, right) ==
    IF {left, right} \subseteq {"int", "float"} THEN "float" ELSE "TypeError"

\* progress_bar = st.progress(0) is a DeltaGenerator: its attribute
\* `progress` is the bound method that moves the bar
ProgressAttribute == "method"

\* line 160, the first statement of the polling loop:
\* min(0.9, progress_bar.progress + 0.1)
LoopRaises == PyAdd(ProgressAttribute, "float") = "TypeError"

\* refresh_data(): what it returns and the state of the subprocess when it
\* returns.  popen_ok: subprocess.Popen started generate_data.py;
\* returncode: the code the subprocess exits with when it is waited for
refresh_data(popen_ok, returncode) ==
    IF ~popen_ok
    THEN [return |-> FALSE, process |-> "none"]              \* except, line 178
    ELSE IF LoopRaises
         THEN [return |-> FALSE, process |-> "running"]      \* except, line 178
         ELSE IF returncode = 0
              THEN [return |-> TRUE, process |-> "exit_0"]   \* line 171
              ELSE [return |-> FALSE, process |-> "exit_1"]  \* line 176

ReturnCodes == {0, 1}

\* the start of a run: connection_status, connection_info = check_database()
FirstCheck ==
    /\ pc = "check_database"
    /\ CheckDatabase("buttons")
    /\ UNCHANGED <<button, success, process, updated_at, cache, data, rendered>>

\* no button returned True in this run
NoClick ==
    /\ pc = "buttons"
    /\ pc' = "load_gate"
    /\ UNCHANGED <<sessionVars, data, rendered>>

\* lines 299-305: "Refresh Data" is offered when the check succeeded
ClickRefreshData ==
    /\ pc = "buttons"
    /\ connection_status = Assigned(TRUE)
    /\ button' = "Refresh Data"
    /\ \E popen_ok \in BOOLEAN, returncode \in ReturnCodes :
          /\ success' = Assigned(refresh_data(popen_ok, returncode).return)
          /\ process' = refresh_data(popen_ok, returncode).process
    /\ IF success' = Assigned(TRUE)
       THEN /\ cache' = Unassigned            \* load_data.clear()
            /\ pc' = "recheck"
       ELSE /\ cache' = cache
            /\ pc' = "load_gate"
    /\ UNCHANGED <<db_connected, data_last_refreshed, connection_status,
                   checks, updated_at, data, rendered>>

\* lines 310-313: "Initialize Database" is offered when the check failed;
\* the value of refresh_data() is dropped and the check is repeated
ClickInitializeDatabase ==
    /\ pc = "buttons"
    /\ connection_status = Assigned(FALSE)
    /\ button' = "Initialize Database"
    /\ \E popen_ok \in BOOLEAN, returncode \in ReturnCodes :
          /\ success' = Assigned(refresh_data(popen_ok, returncode).return)
          /\ process' = refresh_data(popen_ok, returncode).process
    /\ pc' = "recheck"
    /\ UNCHANGED <<db_connected, data_last_refreshed, connection_status,
                   checks, updated_at, cache, data, rendered>>

\* the second check_database() of a run, lines 305 and 313
Recheck ==
    /\ pc = "recheck"
    /\ CheckDatabase("load_gate")
    /\ UNCHANGED <<button, success, process, updated_at, cache, data, rendered>>

\* what load_data() returns when it reads the database: the five frames,
\* of which the model keeps market_index with its updated_at column
LoadedTables(last_updated) ==
    [key \in {"INDEX"} |->
        IF IsNaN(last_updated) THEN <<>> ELSE <<[updated_at |-> last_updated]>>]

\* load_data() returned None (line 274)
None == <<>>

\* the values load_data() can return: the cached one (st.cache_data also
\* keeps a None), else the tables read now, or None when the read raised
load_data ==
    IF cache # Unassigned THEN {cache[1]} ELSE {LoadedTables(updated_at), None}

\* line 316, `if connection_status:`
Gate_Always(status_now) == TRUE

Gate(status_now) == status_now = Assigned(TRUE)

\* lines 316-348 and 1966-1969: load_data() and the tabs, or a warning
LoadGate ==
    /\ pc = "load_gate"
    /\ IF Gate(connection_status)
       THEN \E loaded \in load_data :
               /\ data' = loaded
               /\ cache' = Assigned(loaded)
               /\ rendered' = IF loaded # None
                              THEN {"tabs"}
                              ELSE {"no_data_available"}
       ELSE /\ rendered' = {"connection_required", "troubleshooting"}
            /\ UNCHANGED <<data, cache>>
    /\ pc' = "done"
    /\ UNCHANGED <<db_connected, data_last_refreshed, connection_status,
                   checks, button, success, process, updated_at>>

\* the next run of the script: session_state and the cache stay, the script
\* variables start unassigned and no handle of a subprocess is left
Rerun ==
    /\ pc = "done"
    /\ pc' = "check_database"
    /\ connection_status' = Unassigned
    /\ checks' = <<>>
    /\ button' = "none"
    /\ success' = Unassigned
    /\ data' = None
    /\ rendered' = {}
    /\ process' = "none"
    /\ UNCHANGED <<db_connected, data_last_refreshed, updated_at, cache>>

\* environment: the subprocess ends
SubprocessExits ==
    /\ process = "running"
    /\ \E returncode \in ReturnCodes :
          process' = IF returncode = 0 THEN "exit_0" ELSE "exit_1"
    /\ UNCHANGED <<db_connected, data_last_refreshed, connection_status,
                   checks, button, success, updated_at, cache, data,
                   rendered, pc>>

\* environment: market_index gets rows with a later updated_at
DatabaseUpdated ==
    /\ IF IsNaN(updated_at) THEN TRUE ELSE Val(updated_at) < MaxUpdatedAt
    /\ updated_at' = IF IsNaN(updated_at) THEN Num(1) ELSE Num(Val(updated_at) + 1)
    /\ UNCHANGED <<db_connected, data_last_refreshed, connection_status,
                   checks, button, success, process, cache, data, rendered,
                   pc>>

\* environment: the ttl of 600 seconds ends
CacheExpires ==
    /\ cache # Unassigned
    /\ cache' = Unassigned
    /\ UNCHANGED <<db_connected, data_last_refreshed, connection_status,
                   checks, button, success, process, updated_at, data,
                   rendered, pc>>

sessionOther == <<start_date, end_date, filtered_data, detector,
                  pct_threshold, days_lookback, max_date, lookback_date,
                  lookback_data, merged_data, valid_data, significant_changes,
                  rising, falling, status, drillVars, equivalenceVars,
                  overviewVars>>

SessionInit ==
    /\ data = None
    /\ pc = "check_database"
    /\ NothingAssigned

SessionNext ==
    \/ FirstCheck /\ UNCHANGED sessionOther
    \/ NoClick /\ UNCHANGED sessionOther
    \/ ClickRefreshData /\ UNCHANGED sessionOther
    \/ ClickInitializeDatabase /\ UNCHANGED sessionOther
    \/ Recheck /\ UNCHANGED sessionOther
    \/ LoadGate /\ UNCHANGED sessionOther
    \/ Rerun /\ UNCHANGED sessionOther
    \/ SubprocessExits /\ UNCHANGED sessionOther
    \/ DatabaseUpdated /\ UNCHANGED sessionOther
    \/ CacheExpires /\ UNCHANGED sessionOther

Session == SessionInit /\ [][SessionNext]_vars

-----------------------------------------------------------------------------
(* tab1, the overview: the two metric columns on the date-filtered        *)
(* total_index and total_stocks tables                                     *)

\* the rows of a total table: one row per date of D, earliest first, with
\* NetValue_in_Cr = base + date, so that a shown value names its row
TotalRows(D, base) ==
    [k \in 1 .. Cardinality(D) |->
        LET d == CHOOSE x \in D : Cardinality({y \in D : y <= x}) = k
        IN  [Date |-> d, NetValue_in_Cr |-> Num(base + d)]]

\* load_data()'s total tables: any dates in either table, or a total_index
\* that has no date column; total_index holds the values 100 + date,
\* total_stocks the values 200 + date
OverviewData ==
    { [Total_Index |-> DataFrame({"Date", "NetValue_in_Cr"}, TotalRows(DI, 100)),
       Total_Stocks |-> DataFrame({"Date", "NetValue_in_Cr"}, TotalRows(DS, 200))]
        : DI \in SUBSET Dates, DS \in SUBSET Dates }
    \cup
    { [Total_Index |-> WithoutColumns({"NetValue_in_Cr"}, TotalRows({0}, 100)),
       Total_Stocks |-> DataFrame({"Date", "NetValue_in_Cr"}, TotalRows(DS, 200))]
        : DS \in SUBSET Dates }

\* df[df["Date"] == latest]: no row equals NaT
RowsOn(df, latest) ==
    LET OnDate(r) == ~IsNaN(latest) /\ r.Date = Val(latest)
    IN  SelectSeq(df.rows, OnDate)

\* lines 358-368 and 391-392: the first column
IndexColumn(total_index) ==
    IF "Date" \notin total_index.columns
    THEN [latest_date |-> Unassigned, shown |-> Shown("error", NaN)]  \* KeyError
    ELSE LET latest == DateMax(total_index)
             latest_index_data == RowsOn(total_index, latest)
         IN  [latest_date |-> Assigned(latest),
              shown |-> IF Len(latest_index_data) > 0
                        THEN Shown("metric", latest_index_data[1].NetValue_in_Cr)
                        ELSE Shown("no_data_in_range", NaN)]

\* lines 395-430: the second column; latest is the script variable the first
\* column assigned, or Unassigned
StocksColumn(total_stocks, latest) ==
    IF ~IsEmpty(total_stocks)
    THEN IF latest = Unassigned
         THEN Shown("error", NaN)                                    \* NameError
         ELSE LET latest_stock_data == RowsOn(total_stocks, latest[1])
              IN  IF Len(latest_stock_data) > 0
                  THEN Shown("metric", latest_stock_data[1].NetValue_in_Cr)
                  ELSE Shown("no_data_on_date", NaN)
    ELSE Shown("no_data_in_range", NaN)

overviewOther == <<data, start_date, end_date, filtered_data, detectorVars,
                   equivalenceVars, sessionVars>>

OverviewIndexColumn ==
    /\ pc = "tab1_col1"
    /\ latest_date' = IndexColumn(filtered_data["Total_Index"]).latest_date
    /\ index_metric' = IndexColumn(filtered_data["Total_Index"]).shown
    /\ pc' = "tab1_col2"
    /\ UNCHANGED <<stocks_metric, overviewOther>>

OverviewStocksColumn ==
    /\ pc = "tab1_col2"
    /\ stocks_metric' = StocksColumn(filtered_data["Total_Stocks"], latest_date)
    /\ pc' = "tab1_col3"
    /\ UNCHANGED <<latest_date, index_metric, overviewOther>>

OverviewInit ==
    /\ data \in OverviewData
    /\ ScriptStart

OverviewNext ==
    \/ SidebarFilterTo("tab1_col1")
    \/ OverviewIndexColumn
    \/ OverviewStocksColumn

Overview == OverviewInit /\ [][OverviewNext]_vars

-----------------------------------------------------------------------------
(* Vocabulary of the properties: the detector that ran last, its input    *)
(* table and the window, taken from the input rows themselves             *)

Ran == detector # "none"

\* the block reached the threshold filter: merged_data, valid_data and
\* significant_changes are the ones of the detector that ran last
Computed == status \in {"results", "no_changes"}

DetectorKey ==
    IF detector \in {"tab6_pct_tab1", "tab7_qty_tab1"} THEN "STOCKS" ELSE "INDEX"

DetectorMeasure ==
    IF detector \in {"tab6_pct_tab1", "tab6_pct_tab2"}
    THEN "NetValue_in_Cr" ELSE "NetQtyCarryFwd"

Input == filtered_data[DetectorKey]

RowSet(rows) == {rows[i] : i \in 1 .. Len(rows)}

SymbolsOf(rows) == {rows[i].Symbol : i \in 1 .. Len(rows)}

\* the rows of the input on or after (latest date - days_lookback)
WindowRows ==
    LET all == RowSet(Input.rows)
    IN  IF all = {} THEN {}
        ELSE UNION { {r \in all : r.Date >= ref - days_lookback} :
                     ref \in {SetMax({r.Date : r \in all})} }

Obs(sym) == {r \in WindowRows : r.Symbol = sym}

EarliestObs(sym) == {r \in Obs(sym) : \A x \in Obs(sym) : r.Date <= x.Date}
LatestObs(sym) == {r \in Obs(sym) : \A x \in Obs(sym) : x.Date <= r.Date}

\* |PctChange| >= n, |PctChange| = n, for a defined PctChange
AbsGe(p, n) == Abs(p[1]) >= n * p[2]
AbsEq(p, n) == Abs(p[1]) = n * p[2]

-----------------------------------------------------------------------------
(* C1: in each detector, an entity whose start value in the window is     *)
(* exactly 0 (the value of its earliest observation, or the StartValue    *)
(* the detector computed) never appears in significant_changes, nor in    *)
(* the rising or falling view, whatever its end value; the block raises   *)
(* nothing on it and its PctChange is NaN, not 0 or infinite.             *)
C1_ZeroStart(sym) ==
    \/ \E r \in EarliestObs(sym) : r[DetectorMeasure] = Num(0)
    \/ \E i \in 1 .. Len(merged_data) :
          merged_data[i].Symbol = sym /\ merged_data[i].StartValue = Num(0)

C1_ZeroBaselineExcluded ==
    (Ran /\ status \notin {"no_date_column", "insufficient_data", "KeyError"}) =>
        \A sym \in Symbols :
            C1_ZeroStart(sym) =>
                /\ Computed
                /\ sym \notin SymbolsOf(significant_changes)
                /\ status = "results" =>
                      sym \notin SymbolsOf(rising) \cup SymbolsOf(falling)
                /\ \A i \in 1 .. Len(merged_data) :
                      merged_data[i].Symbol = sym =>
                          IsNaN(merged_data[i].PctChange)

\* the INDEX quantity detector shows results while an entity with start 0,
\* a non-zero end and enough days between is left out
C1_Witness ==
    /\ detector = "tab7_qty_tab2"
    /\ status = "results"
    /\ \E i \in 1 .. Len(merged_data) :
          /\ merged_data[i].StartValue = Num(0)
          /\ ~IsNaN(merged_data[i].EndValue)
          /\ merged_data[i].EndValue # Num(0)
          /\ MinDaysOk(merged_data[i].DaysBetween, days_lookback)
          /\ merged_data[i].Symbol \notin SymbolsOf(significant_changes)

(* C2: every row of significant_changes has |PctChange| >= the threshold. *)
C2_ThresholdSound ==
    (Ran /\ Computed) =>
        \A i \in 1 .. Len(significant_changes) :
            /\ ~IsNaN(significant_changes[i].PctChange)
            /\ AbsGe(significant_changes[i].PctChange, pct_threshold)

\* at threshold 10 one entity is returned and another, with a defined
\* smaller change and enough days, is filtered out
C2_Witness ==
    /\ status = "results"
    /\ pct_threshold = DefaultThreshold
    /\ Len(valid_data) > Len(significant_changes)

(* C3: an entity with an observation in the window is in                  *)
(* significant_changes iff its DaysBetween meets the minimum coverage,    *)
(* its PctChange is defined and |PctChange| >= threshold; equality with   *)
(* the threshold is in, strictly below is out.                            *)
C3_ThresholdComplete ==
    (Ran /\ Computed) =>
        /\ SymbolsOf(merged_data) = {sym \in Symbols : Obs(sym) # {}}
        /\ \A i \in 1 .. Len(merged_data) :
              LET r == merged_data[i]
              IN  (r.Symbol \in SymbolsOf(significant_changes))
                  <=> /\ r.DaysBetween >= 1
                      /\ 2 * r.DaysBetween >= days_lookback
                      /\ ~IsNaN(r.PctChange)
                      /\ AbsGe(r.PctChange, pct_threshold)

\* at the minimum threshold 1: the INDEX detector returns an entity and
\* leaves out one that has the days and a change strictly between 0 and 1
C3_Witness ==
    /\ status = "results"
    /\ pct_threshold = MinThreshold
    /\ \E i \in 1 .. Len(merged_data) :
          LET r == merged_data[i]
          IN  /\ 2 * r.DaysBetween >= days_lookback
              /\ ~IsNaN(r.PctChange)
              /\ r.PctChange[1] # 0
              /\ ~AbsGe(r.PctChange, pct_threshold)
              /\ r.Symbol \notin SymbolsOf(significant_changes)

(* C4: every row of significant_changes has DaysBetween >= 1 and          *)
(* 2 * DaysBetween >= days_lookback.                                      *)
C4_MinimumCoverage ==
    (Ran /\ Computed) =>
        \A i \in 1 .. Len(significant_changes) :
            /\ significant_changes[i].DaysBetween >= 1
            /\ 2 * significant_changes[i].DaysBetween >= days_lookback

\* odd lookback 3: an entity one day apart with a change over the threshold
\* is left out, one two days apart is returned
C4_Witness ==
    /\ status = "results"
    /\ days_lookback = 3
    /\ \E i \in 1 .. Len(merged_data) :
          /\ merged_data[i].DaysBetween = 1
          /\ ~IsNaN(merged_data[i].PctChange)
          /\ AbsGe(merged_data[i].PctChange, pct_threshold)
          /\ merged_data[i].Symbol \notin SymbolsOf(significant_changes)
    /\ \E i \in 1 .. Len(significant_changes) :
          significant_changes[i].DaysBetween = 2

(* C5: rising and falling are disjoint, together they are the whole of    *)
(* significant_changes, and no row of significant_changes has PctChange 0 *)
C5_RisingFallingPartition ==
    (Ran /\ Computed) =>
        /\ \A i \in 1 .. Len(significant_changes) :
              significant_changes[i].PctChange[1] # 0
        /\ status = "results" =>
              /\ RowSet(rising) \cap RowSet(falling) = {}
              /\ RowSet(rising) \cup RowSet(falling) = RowSet(significant_changes)
              /\ Len(rising) + Len(falling) = Len(significant_changes)
              /\ \A i \in 1 .. Len(rising) : rising[i].PctChange[1] > 0
              /\ \A i \in 1 .. Len(falling) : falling[i].PctChange[1] < 0

\* one entity is returned in each view
C5_Witness ==
    /\ status = "results"
    /\ Len(rising) > 0
    /\ Len(falling) > 0

(* C6: StartDate and StartValue both come from the entity's earliest      *)
(* observation in the window, EndDate and EndValue both from its latest   *)
(* one, also when an observation's measure is NULL.                       *)
C6_StartEndFromExtremeObservations ==
    (Ran /\ Computed) =>
        \A i \in 1 .. Len(merged_data) :
            LET r == merged_data[i]
            IN  /\ \E e \in EarliestObs(r.Symbol) :
                      /\ r.StartDate = e.Date
                      /\ r.StartValue = e[DetectorMeasure]
                /\ \E l \in LatestObs(r.Symbol) :
                      /\ r.EndDate = l.Date
                      /\ r.EndValue = l[DetectorMeasure]

(* C7: max_date is the latest Date of the table given to the detector,    *)
(* lookback_data is exactly its rows with Date >= max_date -              *)
(* days_lookback (the boundary date included), an entity without a row    *)
(* in the window has no record, and every start / end date and value is   *)
(* the one of a row of the entity inside the window.                      *)
C7_WindowSelection ==
    (Ran /\ status # "no_date_column") =>
        LET all == RowSet(Input.rows)
        IN  /\ IF all = {} THEN IsNaN(max_date) /\ IsNaN(lookback_date)
               ELSE /\ max_date = Num(SetMax({r.Date : r \in all}))
                    /\ lookback_date = Num(Val(max_date) - days_lookback)
            /\ RowSet(lookback_data.rows) = WindowRows
            /\ Len(lookback_data.rows) = Cardinality(WindowRows)
            /\ Computed =>
                  /\ SymbolsOf(merged_data) = {sym \in Symbols : Obs(sym) # {}}
                  /\ SymbolsOf(significant_changes) \subseteq SymbolsOf(merged_data)
                  /\ \A i \in 1 .. Len(merged_data) :
                        LET r == merged_data[i]
                            seen == {x[DetectorMeasure] : x \in Obs(r.Symbol)}
                        IN  /\ r.StartDate \in {x.Date : x \in Obs(r.Symbol)}
                            /\ r.EndDate \in {x.Date : x \in Obs(r.Symbol)}
                            /\ r.StartValue \in seen
                            /\ r.EndValue \in seen

\* results, with a row of the table older than the boundary and a row of
\* the window on the boundary date itself
C7_Witness ==
    /\ status = "results"
    /\ \E r \in RowSet(Input.rows) : r.Date < Val(lookback_date)
    /\ \E r \in RowSet(lookback_data.rows) : r.Date = Val(lookback_date)

(* C8: filtered_data holds, per table, the rows with start_date <= Date   *)
(* <= end_date (a table without a Date column as it is); the detector's   *)
(* max_date is the latest date inside that range and no returned record   *)
(* starts before start_date or ends after end_date.                       *)
C8_InRange(r) == r.Date >= start_date /\ r.Date <= end_date

C8_WindowOnFilteredData ==
    (pc # "sidebar") =>
        /\ \A key \in DOMAIN data :
              IF "Date" \in data[key].columns
              THEN /\ filtered_data[key].columns = data[key].columns
                   /\ RowSet(filtered_data[key].rows) =
                         {r \in RowSet(data[key].rows) : C8_InRange(r)}
                   /\ Len(filtered_data[key].rows) =
                         Cardinality({i \in 1 .. Len(data[key].rows) :
                                         C8_InRange(data[key].rows[i])})
              ELSE filtered_data[key] = data[key]
        /\ (Ran /\ status # "no_date_column") =>
              LET inrange == {r \in RowSet(data[DetectorKey].rows) : C8_InRange(r)}
              IN  IF inrange = {} THEN IsNaN(max_date)
                  ELSE max_date = Num(SetMax({r.Date : r \in inrange}))
        /\ (Ran /\ Computed) =>
              \A i \in 1 .. Len(significant_changes) :
                  /\ significant_changes[i].StartDate >= start_date
                  /\ significant_changes[i].EndDate <= end_date

\* the STOCKS table has a row after end_date, the detector returns a record
\* that ends on end_date, and the INDEX table, without a Date column, is
\* passed on with its rows
C8_Witness ==
    /\ status = "results"
    /\ DetectorKey = "STOCKS"
    /\ \E r \in RowSet(data.STOCKS.rows) : r.Date > end_date
    /\ \E i \in 1 .. Len(significant_changes) :
          significant_changes[i].EndDate = end_date
    /\ "Date" \notin data.INDEX.columns
    /\ Len(filtered_data.INDEX.rows) > 0

(* C9: for a non-zero start value PctChange = (EndValue - StartValue) /   *)
(* StartValue * 100, the sign following the formula for a negative start; *)
(* 100 -> 112 is +12 and rising, 50 -> 49 is -2, out at threshold 10 and  *)
(* falling at a threshold <= 2.                                           *)
C9_Covered(r) ==
    r.DaysBetween >= 1 /\ 2 * r.DaysBetween >= days_lookback

C9_PctChangeValue ==
    (Ran /\ Computed) =>
        \A i \in 1 .. Len(merged_data) :
            LET r == merged_data[i]
                p == r.PctChange
            IN  (~IsNaN(r.StartValue) /\ ~IsNaN(r.EndValue) /\ Val(r.StartValue) # 0) =>
                  /\ ~IsNaN(p)
                  /\ p[2] > 0
                  /\ p[1] * Val(r.StartValue) =
                        (Val(r.EndValue) - Val(r.StartValue)) * 100 * p[2]
                  /\ (r.StartValue = Num(100) /\ r.EndValue = Num(112)) =>
                        /\ p[1] = 12 * p[2]
                        /\ C9_Covered(r) =>
                              status = "results" /\ r.Symbol \in SymbolsOf(rising)
                  /\ (r.StartValue = Num(50) /\ r.EndValue = Num(49)) =>
                        /\ p[1] = (-2) * p[2]
                        /\ pct_threshold = 10 =>
                              r.Symbol \notin SymbolsOf(significant_changes)
                        /\ (pct_threshold <= 2 /\ C9_Covered(r)) =>
                              status = "results" /\ r.Symbol \in SymbolsOf(falling)

\* a negative start value and a larger end value: the record is in falling
C9_Witness ==
    /\ status = "results"
    /\ \E i \in 1 .. Len(falling) :
          /\ Val(falling[i].StartValue) < 0
          /\ Val(falling[i].EndValue) > Val(falling[i].StartValue)

(* C10: significant_changes is ordered by |PctChange| non-increasing, and *)
(* rising and falling keep the rows in that order.                        *)
C10_NonIncreasing(rows) ==
    \A i \in 1 .. Len(rows) - 1 :
        ~FracLt(PctAbs(rows[i].PctChange), PctAbs(rows[i + 1].PctChange))

C10_Position(sym) ==
    CHOOSE k \in 1 .. Len(significant_changes) : significant_changes[k].Symbol = sym

C10_SameOrder(rows) ==
    \A i, j \in 1 .. Len(rows) :
        i < j => C10_Position(rows[i].Symbol) < C10_Position(rows[j].Symbol)

C10_ResultOrdering ==
    (Ran /\ Computed) =>
        /\ C10_NonIncreasing(significant_changes)
        /\ status = "results" =>
              /\ C10_NonIncreasing(rising) /\ C10_SameOrder(rising)
              /\ C10_NonIncreasing(falling) /\ C10_SameOrder(falling)

\* two falling entities, the one later in key order with the larger change
\* comes first
C10_Witness ==
    /\ status = "results"
    /\ Len(falling) = 2
    /\ falling[1].Symbol = "B"
    /\ FracLt(PctAbs(falling[2].PctChange), PctAbs(falling[1].PctChange))

-----------------------------------------------------------------------------
(* C12: when no row of the detector's input table falls in the lookback   *)
(* window - which happens exactly when the date-filtered table has no     *)
(* rows - the block raises nothing, shows the "Insufficient data" warning *)
(* and nothing else (no table, no "No ... found with changes" message),   *)
(* and goes on to the next tab; and that warning is shown in no other     *)
(* case.                                                                  *)
C12_EmptyWindowInsufficientData ==
    (Ran /\ "Date" \in Input.columns) =>
        /\ (WindowRows = {}) <=> IsEmpty(Input)
        /\ (WindowRows = {}) =>
              /\ status = "insufficient_data"
              /\ rendered = {"warning_insufficient_data"}
              /\ pc # "exception"
        /\ ("warning_insufficient_data" \in rendered) => (WindowRows = {})

\* a detector ran on a table that has rows, none of them in the sidebar's
\* date range
C12_Witness ==
    /\ Ran
    /\ "Date" \in Input.columns
    /\ ~IsEmpty(data[DetectorKey])
    /\ IsEmpty(Input)
    /\ status = "insufficient_data"

-----------------------------------------------------------------------------
(* C13: when the window has rows (and the table its measure column) but   *)
(* no entity has the required coverage, a defined PctChange and a change  *)
(* of at least the threshold, the block finishes without raising,         *)
(* significant_changes is empty, and the page shows the "No ... found     *)
(* with changes" message only: no table, bar chart, selectbox,            *)
(* drill-down, rising or falling view. The message is shown in no other   *)
(* case.                                                                  *)
C13_Passes(r) ==
    /\ r.DaysBetween >= 1
    /\ 2 * r.DaysBetween >= days_lookback
    /\ ~IsNaN(r.PctChange)
    /\ AbsGe(r.PctChange, pct_threshold)

C13_SparseDataNoChanges ==
    (Ran /\ "Date" \in Input.columns /\ DetectorMeasure \in Input.columns
         /\ WindowRows # {}) =>
        LET none == \A i \in Idx(merged_data) : ~C13_Passes(merged_data[i])
        IN  /\ Computed
            /\ pc # "exception"
            /\ SymbolsOf(merged_data) = {r.Symbol : r \in WindowRows}
            /\ none => /\ status = "no_changes"
                       /\ significant_changes = <<>>
                       /\ rendered = {"info_no_changes"}
            /\ ("info_no_changes" \in rendered) => none

\* an entity has the coverage and a defined change, below the threshold,
\* and nothing is significant
C13_Witness ==
    /\ status = "no_changes"
    /\ rendered = {"info_no_changes"}
    /\ \E i \in Idx(merged_data) :
          /\ 2 * merged_data[i].DaysBetween >= days_lookback
          /\ merged_data[i].DaysBetween >= 1
          /\ ~IsNaN(merged_data[i].PctChange)
          /\ ~AbsGe(merged_data[i].PctChange, pct_threshold)

-----------------------------------------------------------------------------
(* C14: a detector whose table has the Date and Symbol columns but not    *)
(* its measure column signals the failure to its caller: the block ends   *)
(* with an exception, and neither returns an empty result nor shows one   *)
(* of its ordinary messages. (The only error the block can raise on such  *)
(* a table is pandas' KeyError; it is taken here as the schema failure    *)
(* the claim names.)                                                      *)
C14_MissingMeasureSignalled ==
    (Ran /\ {"Date", "Symbol"} \subseteq Input.columns
         /\ DetectorMeasure \notin Input.columns) =>
        /\ status = "KeyError"
        /\ pc = "exception"
        /\ rendered = {"exception"}

-----------------------------------------------------------------------------
(* C15: with a lookback of two days or more, an entity with exactly one   *)
(* row in the window has DaysBetween = 0 in merged_data and appears       *)
(* neither in valid_data nor in significant_changes, whatever its value   *)
(* and the threshold.                                                     *)
C15_Observations(sym) ==
    {i \in Idx(Input.rows) :
        Input.rows[i].Symbol = sym /\ Input.rows[i] \in WindowRows}

C15_SingleObservationExcluded ==
    (Ran /\ Computed /\ days_lookback >= 2) =>
        \A sym \in Symbols :
            Cardinality(C15_Observations(sym)) = 1 =>
                /\ \E i \in Idx(merged_data) :
                      /\ merged_data[i].Symbol = sym
                      /\ merged_data[i].DaysBetween = 0
                /\ sym \notin SymbolsOf(valid_data)
                /\ sym \notin SymbolsOf(significant_changes)

\* one entity has a single row in the window and is left out while the
\* other entity is significant
C15_Witness ==
    /\ status = "results"
    /\ days_lookback >= 2
    /\ \E sym \in Symbols :
          /\ Cardinality(C15_Observations(sym)) = 1
          /\ \E r \in Obs(sym) : ~IsNaN(r[DetectorMeasure])
          /\ sym \notin SymbolsOf(significant_changes)

-----------------------------------------------------------------------------
(* C16: merged_data has one row for every entity of the window; its       *)
(* StartDate and EndDate are the earliest and the latest date of the      *)
(* entity's rows in the window, its DaysBetween is EndDate - StartDate in *)
(* whole days, and 0 <= DaysBetween <= the lookback.                      *)
C16_DaysBetweenBounds ==
    (Ran /\ Computed) =>
        /\ SymbolsOf(merged_data) = {r.Symbol : r \in WindowRows}
        /\ \A i \in Idx(merged_data) :
              LET r == merged_data[i]
              IN  /\ \E o \in EarliestObs(r.Symbol) : r.StartDate = o.Date
                  /\ \E o \in LatestObs(r.Symbol) : r.EndDate = o.Date
                  /\ r.DaysBetween = r.EndDate - r.StartDate
                  /\ 0 <= r.DaysBetween
                  /\ r.DaysBetween <= days_lookback

\* one entity spans the whole lookback and another has a single date in it
C16_Witness ==
    /\ Ran /\ Computed
    /\ \E i, j \in Idx(merged_data) :
          /\ merged_data[i].DaysBetween = days_lookback
          /\ merged_data[j].DaysBetween = 0

-----------------------------------------------------------------------------
(* C17: in the drill-down of the selected entity, "Days Tracked" is the   *)
(* number of distinct dates on which the entity is observed in the        *)
(* window, also when the entity has more than one row on a date.          *)
C17_DaysTrackedDistinctDates ==
    (status = "results") =>
        stats_df.Days = Cardinality({r.Date : r \in Obs(selected_stock)})

-----------------------------------------------------------------------------
(* C18: the statistics of an entity do not depend on the threshold: every *)
(* entity with rows in the window can be selected in the drill-down,      *)
(* significant or not, and the statistics shown for the selected entity   *)
(* are those of its rows in the window (their number, and the largest and *)
(* the smallest of their values).                                         *)
C18_Values(sym) ==
    {Val(r[DetectorMeasure]) : r \in {o \in Obs(sym) : ~IsNaN(o[DetectorMeasure])}}

C18_StatisticsIndependentOfThreshold ==
    (Ran /\ Computed) =>
        \A sym \in {r.Symbol : r \in WindowRows} :
            /\ status = "results"
            /\ sym \in SelectOptions(significant_changes)
            /\ selected_stock = sym =>
                  /\ "statistics" \in rendered
                  /\ stats_df.Days = Cardinality(C15_Observations(sym))
                  /\ \A v \in C18_Values(sym) :
                        /\ v <= Val(stats_df.Max)
                        /\ Val(stats_df.Min) <= v
                  /\ C18_Values(sym) = {} <=> IsNaN(stats_df.Mean)

-----------------------------------------------------------------------------
-----------------------------------------------------------------------------
(* C20: on one table whose NetValue_in_Cr and NetQtyCarryFwd columns hold *)
(* the same values, with the same lookback and threshold, the four blocks *)
(* (STOCKS and INDEX, net value and net quantity) return the same         *)
(* entities in the same order, each with the same StartDate, EndDate,     *)
(* DaysBetween and PctChange, and with start and end quantities equal to  *)
(* the start and end values.                                              *)
C20_Record(r) ==
    [Symbol |-> r.Symbol, StartDate |-> r.StartDate, EndDate |-> r.EndDate,
     DaysBetween |-> r.DaysBetween, PctChange |-> r.PctChange]

C20_Records(rows) == [k \in Idx(rows) |-> C20_Record(rows[k])]

C20_FourDetectorsAgree ==
    (pc = "compared") =>
        /\ C20_Records(index_pct) = C20_Records(stocks_pct)
        /\ C20_Records(stocks_qty) = C20_Records(stocks_pct)
        /\ C20_Records(index_qty) = C20_Records(stocks_pct)
        /\ \A k \in Idx(stocks_pct) :
              /\ index_pct[k].StartValue = stocks_pct[k].StartValue
              /\ index_pct[k].EndValue = stocks_pct[k].EndValue
              /\ stocks_qty[k].StartQty = stocks_pct[k].StartValue
              /\ stocks_qty[k].EndQty = stocks_pct[k].EndValue
              /\ index_qty[k].StartQty = stocks_pct[k].StartValue
              /\ index_qty[k].EndQty = stocks_pct[k].EndValue

\* the four blocks return two entities whose changes are equal in size, a
\* rise and a fall
C20_Witness ==
    /\ pc = "compared"
    /\ Len(stocks_pct) = 2
    /\ Len(index_qty) = 2
    /\ FracEq(stocks_pct[1].AbsPctChange, stocks_pct[2].AbsPctChange)
    /\ stocks_pct[1].PctChange # stocks_pct[2].PctChange

-----------------------------------------------------------------------------
(* C21: with every lookback, one day included, each row of                *)
(* significant_changes has StartDate < EndDate and its entity is observed *)
(* on at least two dates of the window; an entity seen on one date only   *)
(* is in neither valid_data nor significant_changes, and so is never the  *)
(* entity of the drill-down.                                              *)
C21_Dates(sym) == {r.Date : r \in Obs(sym)}

C21_TwoDistinctDates ==
    (Ran /\ Computed) =>
        /\ \A i \in Idx(significant_changes) :
              /\ significant_changes[i].StartDate < significant_changes[i].EndDate
              /\ Cardinality(C21_Dates(significant_changes[i].Symbol)) >= 2
        /\ \A sym \in Symbols :
              Cardinality(C21_Dates(sym)) = 1 =>
                  /\ sym \notin SymbolsOf(valid_data)
                  /\ sym \notin SymbolsOf(significant_changes)
                  /\ status = "results" => selected_stock # sym

\* lookback of one day: an entity with two rows on the one date of the
\* window, whose change passes the threshold, is left out
C21_Witness ==
    /\ Ran /\ Computed
    /\ days_lookback = 1
    /\ \E i \in Idx(merged_data) :
          /\ merged_data[i].DaysBetween = 0
          /\ ~IsNaN(merged_data[i].PctChange)
          /\ AbsGe(merged_data[i].PctChange, pct_threshold)
          /\ merged_data[i].Symbol \notin SymbolsOf(significant_changes)

-----------------------------------------------------------------------------
(* C22: for the entity selected in the drill-down, the starting value,    *)
(* the ending value and the change shown there are the StartValue, the    *)
(* EndValue and the PctChange of the entity's row in significant_changes, *)
(* and the change shown is a number, not NaN.                             *)
C22_DrillDownAgreesWithTable ==
    (status = "results") =>
        /\ ~IsNaN(pct_change)
        /\ \E i \in Idx(significant_changes) :
              /\ significant_changes[i].Symbol = selected_stock
              /\ significant_changes[i].StartValue = start_val
              /\ significant_changes[i].EndValue = end_val
              /\ significant_changes[i].PctChange = pct_change

-----------------------------------------------------------------------------
(* C23: each Symbol occurs at most once in merged_data, in valid_data and *)
(* in significant_changes, hence at most once in the rising and falling   *)
(* views together, also when the table has several rows for an entity on  *)
(* one date.                                                              *)
C23_Unique(rows) ==
    \A i, j \in Idx(rows) : rows[i].Symbol = rows[j].Symbol => i = j

C23_OneRecordPerEntity ==
    (Ran /\ Computed) =>
        /\ C23_Unique(merged_data)
        /\ C23_Unique(valid_data)
        /\ C23_Unique(significant_changes)
        /\ status = "results" => C23_Unique(rising \o falling)

\* the entity returned has two rows on one date of the window
C23_Witness ==
    /\ status = "results"
    /\ \E i \in Idx(significant_changes) :
          LET sym == significant_changes[i].Symbol
          IN  Cardinality(C15_Observations(sym)) > Cardinality(C21_Dates(sym))

-----------------------------------------------------------------------------
\* C24: when refresh_data() has returned, the subprocess it started is no
\* longer running, and it returned True exactly when that subprocess ended
\* with return code 0.
C24_RefreshWaitsForSubprocess ==
    success # Unassigned =>
        /\ process # "running"
        /\ success = Assigned(TRUE) <=> process = "exit_0"

-----------------------------------------------------------------------------
\* C26: a step that calls check_database() leaves db_connected equal to what
\* the call returned, and data_last_refreshed equal to the database's
\* MAX(updated_at) when the call succeeded and to its previous value when
\* the call failed; no other step changes either of the two.
C26_SessionStateFollowsCheck ==
    [][IF Len(checks') = Len(checks) + 1
       THEN /\ db_connected' = checks'[Len(checks')]
            /\ data_last_refreshed' = IF checks'[Len(checks')]
                                      THEN updated_at
                                      ELSE data_last_refreshed
       ELSE /\ db_connected' = db_connected
            /\ data_last_refreshed' = data_last_refreshed]_vars

\* a check failed in a session whose earlier check had stored a timestamp
C26_Witness ==
    /\ checks # <<>>
    /\ ~checks[Len(checks)]
    /\ ~db_connected
    /\ ~IsNaN(data_last_refreshed)

-----------------------------------------------------------------------------
\* C27: load_data() is called and the tabs are rendered only in a run whose
\* most recent check_database() call succeeded; when that call failed the
\* run ends with the connection warning and nothing loaded.  After
\* "Initialize Database" the most recent call is the second one.
C27_LoadCalled == rendered \in {{"tabs"}, {"no_data_available"}}

C27_GateFollowsLastCheck ==
    /\ C27_LoadCalled => checks # <<>> /\ checks[Len(checks)]
    /\ (pc = "done" /\ ~checks[Len(checks)]) =>
            /\ rendered = {"connection_required", "troubleshooting"}
            /\ data = None
    /\ (pc = "done" /\ button = "Initialize Database") => Len(checks) = 2

\* the first check failed, "Initialize Database" was clicked, the re-check
\* succeeded and the tabs were rendered
C27_Witness ==
    /\ pc = "done"
    /\ button = "Initialize Database"
    /\ Len(checks) = 2
    /\ ~checks[1]
    /\ checks[2]
    /\ rendered = {"tabs"}

-----------------------------------------------------------------------------
\* C28: when the date-filtered Total_Stocks has rows, the second column of
\* the overview shows as a metric the NetValue_in_Cr of a row on
\* Total_Stocks' own latest date, whatever dates Total_Index has; when it
\* has no rows the column shows the no-data warning.
C28_LatestStocksOwnDate ==
    pc = "tab1_col3" =>
        IF IsEmpty(filtered_data["Total_Stocks"])
        THEN stocks_metric.kind = "no_data_in_range"
        ELSE /\ stocks_metric.kind = "metric"
             /\ \E i \in Idx(filtered_data["Total_Stocks"].rows) :
                   /\ filtered_data["Total_Stocks"].rows[i].Date =
                         Val(DateMax(filtered_data["Total_Stocks"]))
                   /\ filtered_data["Total_Stocks"].rows[i].NetValue_in_Cr =
                         stocks_metric.value

====
